---- MODULE Spec2Model ----
(***************************************************************************)
(* Model of azuread/helpers/graph/group.go: the group membership and       *)
(* ownership helpers of the Azure AD provider.  One synchronous caller     *)
(* runs one helper at a time against a remote directory whose reads are    *)
(* eventually consistent.  Every remote call and every sleep is one step.  *)
(***************************************************************************)
EXTENDS Integers, Sequences, FiniteSets, TLC

(* ------------------------------ bounds --------------------------------- *)

\* Longest list handed to GroupAddMembers / GroupAddOwners.
MaxList == 2

\* Producer calls WaitForListAdd makes before it gives up.
PollAttempts == 3

\* Most groups in one answer of the directory to a group listing.
MaxPage == 3
\* Longest iterator of directory objects handed to DirectoryObjectListToIDs.
MaxObjects == 4
\* Longest identifier string handed to ParseGroupMemberId, in symbols.
MaxIdString == 6
\* Longest object identifier handed to GroupMemberIdFrom, in symbols.
MaxIdLen == 2

(* ------------------------- program constants --------------------------- *)

\* group.go:126  attempts := 10
attempts == 10

\* group.go:134  time.Sleep(time.Second * 2)
SleepSeconds == 2

\* Seconds WaitForListAdd waits between two producer calls.
PollDelay == 1

(* ------------------------------ universe ------------------------------- *)

Groups == {"gA", "gB"}

\* Directory objects by variant; "app1" is of a variant the helpers do not
\* recognise (neither user, group nor service principal).
KindOf == [u1 |-> "User", sp1 |-> "ServicePrincipal", app1 |-> "Application"]

ObjectIds == DOMAIN KindOf

\* The order in which the directory lists objects.
ListingOrder == <<"u1", "sp1", "app1">>

\* Results of a remote call made with a live context.
LiveOutcomes == {"ok", "transient", "permanent"}

Lists == UNION {[1..n -> ObjectIds] : n \in 0..MaxList}

\* A nil *string.
NilString == "<nil>"

\* Display names asked for; they differ in case only.
Names == {"dev", "Dev"}

\* Groups of the directory: two carry the same display name, one answer
\* carries none.
DirGroups ==
    {[ObjectID |-> "o1", DisplayName |-> "dev"],
     [ObjectID |-> "o2", DisplayName |-> "dev"],
     [ObjectID |-> "o3", DisplayName |-> "Dev"],
     [ObjectID |-> "o4", DisplayName |-> NilString]}

\* A nil *graphrbac.ADGroup.
NilGroup == [ObjectID |-> NilString, DisplayName |-> NilString]

(* ------------------------------- values -------------------------------- *)

Nil == [kind |-> "nil"]

NoRet == [kind |-> "none"]

IsError(r) == r # Nil /\ r # NoRet

\* The error a failed remote call returns.
RemoteError(o) == [kind |-> "remote", class |-> o]

\* group.go:132
AddMemberError(m, g, cause) ==
    [kind |-> "adding group member", member |-> m, group |-> g, cause |-> cause]

\* group.go:140
WaitError(cause) == [kind |-> "waiting for group membership", cause |-> cause]

\* group.go:151
AddMembersError(g, cause) ==
    [kind |-> "while adding members", group |-> g, cause |-> cause]

\* group.go:183
AddOwnerError(o, g, cause) ==
    [kind |-> "adding group owner", owner |-> o, group |-> g, cause |-> cause]

\* group.go:194
AddOwnersError(g, cause) ==
    [kind |-> "while adding owners", group |-> g, cause |-> cause]

\* group.go:104
ListMembersError(g, cause) ==
    [kind |-> "listing existing group members", group |-> g, cause |-> cause]

\* group.go:109
MemberIdsError(g, cause) ==
    [kind |-> "getting objects IDs of group members", group |-> g, cause |-> cause]

\* group.go:162
ListOwnersError(g, cause) ==
    [kind |-> "listing existing group owners", group |-> g, cause |-> cause]

\* group.go:167
OwnerIdsError(g, cause) ==
    [kind |-> "getting objects IDs of group owners", group |-> g, cause |-> cause]

\* group.go:93
PaginationError(cause) ==
    [kind |-> "during pagination of directory objects", cause |-> cause]

\* The error WaitForListAdd returns when its budget is spent.
TimeoutError(target) == [kind |-> "timeout", target |-> target]

\* group.go:44, 49, 52, 55, 60
LookupError(what, filter) == [kind |-> what, filter |-> filter]

\* group.go:63
MismatchError(filter, got, want) ==
    [kind |-> "displayname does not match", filter |-> filter, got |-> got, want |-> want]

(* --------------------------- pure functions ---------------------------- *)

\* group.go:40, 202  fmt.Sprintf("displayName eq '%s'", name)
NameFilter(name) == <<"displayName eq", name>>

\* Faulty variant: the display name of the first group is not compared.
GroupGetByDisplayNameNoNameCheck(displayName, resp) ==
    LET filter == NameFilter(displayName)
    IN  IF resp.status # "ok" \/ resp.valuesNil \/ Len(resp.values) \notin 1..2
        THEN [group |-> NilGroup, err |-> LookupError("no single group", filter)]
        ELSE [group |-> resp.values[1], err |-> Nil]

\* Faulty variant: every returned group is searched for the display name.
GroupGetByDisplayNameSearches(displayName, resp) ==
    LET filter == NameFilter(displayName)
        hits == SelectSeq(resp.values, LAMBDA g : g.DisplayName = displayName)
    IN  IF resp.status # "ok" \/ resp.valuesNil \/ Len(resp.values) \notin 1..2
        THEN [group |-> NilGroup, err |-> LookupError("no single group", filter)]
        ELSE IF hits = <<>>
        THEN [group |-> NilGroup,
              err |-> MismatchError(filter, resp.values[1].DisplayName, displayName)]
        ELSE [group |-> hits[1], err |-> Nil]

(* ---------------------- composite identifiers ------------------------- *)
\* Strings are sequences of symbols: "a" stands for a character an object
\* identifier may hold, "/" separates the parts of a composite identifier,
\* "member" and "owner" are the tags.
IdChars == {"a"}
Sep == "/"
Symbols == IdChars \cup {Sep, "member", "owner"}

MemberTag == <<"member">>

\* An object identifier: non-empty, of identifier characters only.
WellFormedId(str) == str # <<>> /\ \A k \in 1..Len(str) : str[k] \in IdChars

\* The string form of an ObjectSubResourceId: its three parts in order,
\* separated.
String(id) == id.objectId \o <<Sep>> \o id.Type \o <<Sep>> \o id.subId

ObjectSubResourceIdFrom(objectId, typeId, subId) ==
    [objectId |-> objectId, subId |-> subId, Type |-> typeId]

RECURSIVE Split(_, _)
\* The parts of str between separators; cur is the part being read.
Split(str, cur) ==
    IF str = <<>>
    THEN <<cur>>
    ELSE IF Head(str) = Sep
         THEN <<cur>> \o Split(Tail(str), <<>>)
         ELSE Split(Tail(str), Append(cur, Head(str)))

\* The descriptive parse error; it includes the original string.
ParseError(idString) == [kind |-> "parse", idString |-> idString]

NoSubResourceId == [objectId |-> <<>>, subId |-> <<>>, Type |-> <<>>]

\* Parses a composite string and validates it against the expected tag:
\* exactly three parts, the middle one the tag, the outer ones object
\* identifiers.
ParseObjectSubResourceId(idString, expectedType) ==
    LET parts == Split(idString, <<>>)
    IN  IF /\ Len(parts) = 3
           /\ WellFormedId(parts[1])
           /\ parts[2] = expectedType
           /\ WellFormedId(parts[3])
        THEN [id |-> ObjectSubResourceIdFrom(parts[1], parts[2], parts[3]), err |-> Nil]
        ELSE [id |-> NoSubResourceId, err |-> ParseError(idString)]

\* group.go:18-24
GroupMemberIdFrom(g, m) ==
    [ObjectSubResourceId |-> ObjectSubResourceIdFrom(g, MemberTag, m),
     GroupId |-> g,
     MemberId |-> m]

\* group.go:29
ParseMemberIdError(cause) == [kind |-> "unable to parse Member ID", cause |-> cause]

\* The zero GroupMemberId{} (group.go:29).
NoGroupMemberId ==
    [ObjectSubResourceId |-> NoSubResourceId, GroupId |-> <<>>, MemberId |-> <<>>]

\* Faulty variant: the two components are taken from the wrong parts.
ParseGroupMemberIdSwapped(idString) ==
    LET r == ParseObjectSubResourceId(idString, MemberTag)
    IN  IF r.err # Nil
        THEN [id |-> NoGroupMemberId, err |-> ParseMemberIdError(r.err)]
        ELSE [id |-> [ObjectSubResourceId |-> r.id,
                      GroupId |-> r.id.subId,
                      MemberId |-> r.id.objectId],
              err |-> Nil]

\* group.go:26-37
ParseGroupMemberId(idString) ==
    LET r == ParseObjectSubResourceId(idString, MemberTag)
    IN  IF r.err # Nil
        THEN [id |-> NoGroupMemberId, err |-> ParseMemberIdError(r.err)]
        ELSE [id |-> [ObjectSubResourceId |-> r.id,
                      GroupId |-> r.id.objectId,
                      MemberId |-> r.id.subId],
              err |-> Nil]

\* The value of a nil pointer dereference: the helper panics.
Panic == [kind |-> "panic: nil pointer dereference"]

RECURSIVE FindFrom(_, _, _)
\* The loop of GroupFindByName from position pos (group.go:209-215);
\* *group.DisplayName dereferences the pointer.
FindFrom(values, name, pos) ==
    IF pos > Len(values)
    THEN [group |-> NilGroup, err |-> Nil]
    ELSE IF values[pos].DisplayName = NilString
         THEN [group |-> NilGroup, err |-> Panic]
         ELSE IF values[pos].DisplayName = name
              THEN [group |-> values[pos], err |-> Nil]
              ELSE FindFrom(values, name, pos + 1)

\* Faulty variant: the first group of the page is taken for the match.
GroupFindByNameFirstEntry(name, resp) ==
    IF resp.status # "ok"
    THEN [group |-> NilGroup,
          err |-> LookupError("unable to list Groups with filter", NameFilter(name))]
    ELSE IF resp.values = <<>>
         THEN [group |-> NilGroup, err |-> Nil]
         ELSE [group |-> resp.values[1], err |-> Nil]

\* group.go:201-216; resp is what client.List answered, resp.values its page.
GroupFindByName(name, resp) ==
    IF resp.status # "ok"
    THEN [group |-> NilGroup,
          err |-> LookupError("unable to list Groups with filter", NameFilter(name))]
    ELSE FindFrom(resp.values, name, 1)

\* group.go:224
DuplicateNameError(name, objectID) ==
    [kind |-> "existing Azure Active Directory Group with name", name |-> name,
     objectID |-> objectID]

\* What fmt.Warnf(...) at group.go:224 yields: package fmt defines no Warnf,
\* so the code fixes neither that the value is an error nor that it is nil.
WarnfResults(name, objectID) == {Nil, DuplicateNameError(name, objectID)}

\* group.go:218-227; w is the value of the fmt.Warnf call.
GroupCheckNameAvailability(name, resp, w) ==
    LET found == GroupFindByName(name, resp)
    IN  IF found.err # Nil
        THEN found.err
        ELSE IF found.group # NilGroup
             THEN w
             ELSE Nil

\* group.go:39-67; resp is what client.ListComplete answered.
GroupGetByDisplayName(displayName, resp) ==
    LET filter == NameFilter(displayName)
        values == resp.values
    IN  IF resp.status # "ok"
        THEN [group |-> NilGroup,
              err |-> LookupError("listing Azure AD Groups for filter", filter)]
        ELSE IF resp.valuesNil
        THEN [group |-> NilGroup,
              err |-> LookupError("nil values for AD Groups matching", filter)]
        ELSE IF Len(values) = 0
        THEN [group |-> NilGroup,
              err |-> LookupError("found no AD Groups matching", filter)]
        ELSE IF Len(values) > 2
        THEN [group |-> NilGroup,
              err |-> LookupError("found multiple AD Groups matching", filter)]
        ELSE LET group == values[1]
             IN  IF group.DisplayName = NilString
                 THEN [group |-> NilGroup,
                       err |-> LookupError("nil DisplayName for AD Groups matching", filter)]
                 ELSE IF group.DisplayName # displayName
                 THEN [group |-> NilGroup,
                       err |-> MismatchError(filter, group.DisplayName, displayName)]
                 ELSE [group |-> group, err |-> Nil]

Contains(list, target) == \E k \in 1..Len(list) : list[k] = target

\* Faulty variant: every element contributes its identifier, whatever its
\* variant.
IdsOfObjectAnyVariant(v) == <<v.id>>

\* The identifiers one directory object contributes (group.go:77-90): one
\* per variant projection that succeeds.
IdsOfObject(v) ==
    (IF v.kind = "User" THEN <<v.id>> ELSE <<>>)
    \o (IF v.kind = "Group" THEN <<v.id>> ELSE <<>>)
    \o (IF v.kind = "ServicePrincipal" THEN <<v.id>> ELSE <<>>)

RECURSIVE IdsFrom(_, _, _, _)
\* The loop of DirectoryObjectListToIDs from position pos with ids collected
\* so far; the advance after element failAt fails (0: none fails).
IdsFrom(objects, failAt, pos, ids) ==
    IF pos > Len(objects)
    THEN [ids |-> ids, err |-> Nil]
    ELSE IF failAt = pos
         THEN [ids |-> <<>>, err |-> PaginationError(RemoteError("transient"))]
         ELSE IdsFrom(objects, failAt, pos + 1, ids \o IdsOfObject(objects[pos]))

\* Faulty variant: a failed advance returns the identifiers collected so far
\* along with the error.
DirectoryObjectListToIDsPartial(objects, failAt) ==
    IF failAt = 0
    THEN IdsFrom(objects, 0, 1, <<>>)
    ELSE [ids |-> IdsFrom(SubSeq(objects, 1, failAt), 0, 1, <<>>).ids,
          err |-> PaginationError(RemoteError("transient"))]

\* group.go:69-98
DirectoryObjectListToIDs(objects, failAt) == IdsFrom(objects, failAt, 1, <<>>)

\* group.go:100-115; resp is what GetGroupMembersComplete answered.
GroupAllMembers(g, resp) ==
    IF resp.status # "ok"
    THEN [ids |-> <<>>, err |-> ListMembersError(g, RemoteError(resp.status))]
    ELSE LET r == DirectoryObjectListToIDs(resp.objects, resp.failAt)
         IN  IF r.err # Nil
             THEN [ids |-> <<>>, err |-> MemberIdsError(g, r.err)]
             ELSE r

\* group.go:158-172; resp is what ListOwnersComplete answered.
GroupAllOwners(g, resp) ==
    IF resp.status # "ok"
    THEN [ids |-> <<>>, err |-> ListOwnersError(g, RemoteError(resp.status))]
    ELSE LET r == DirectoryObjectListToIDs(resp.objects, resp.failAt)
         IN  IF r.err # Nil
             THEN [ids |-> <<>>, err |-> OwnerIdsError(g, r.err)]
             ELSE r

\* Faulty variant: the error of WaitForListAdd is dropped.
PollResultSwallowed(e) == Nil

\* group.go:139-143: what GroupAddMember returns for the error e of
\* WaitForListAdd.
PollResult(e) == IF e # Nil THEN WaitError(e) ELSE Nil

\* Faulty variant: a permanent failure ends the retry loop at once.
AfterAddPermanentStops(o, k) ==
    IF o = "ok" THEN "poll"
    ELSE IF o = "permanent" \/ k = attempts THEN "return" ELSE "sleep"

\* Faulty variant: WaitForListAdd polls on after a listing that contains the target.
WaitForListAddRoundNoStop(target, res, n) ==
    IF res.err # Nil
    THEN [done |-> TRUE, list |-> <<>>, err |-> res.err]
    ELSE IF n >= PollAttempts
         THEN IF Contains(res.ids, target)
              THEN [done |-> TRUE, list |-> res.ids, err |-> Nil]
              ELSE [done |-> TRUE, list |-> <<>>, err |-> TimeoutError(target)]
         ELSE [done |-> FALSE, list |-> <<>>, err |-> Nil]

\* Faulty variant: WaitForListAdd reports success when its budget is spent.
WaitForListAddRoundNoTimeout(target, res, n) ==
    IF res.err # Nil
    THEN [done |-> TRUE, list |-> <<>>, err |-> res.err]
    ELSE IF Contains(res.ids, target) \/ n >= PollAttempts
         THEN [done |-> TRUE, list |-> res.ids, err |-> Nil]
         ELSE [done |-> FALSE, list |-> <<>>, err |-> Nil]

\* Faulty variant: WaitForListAdd calls the producer again after it failed.
WaitForListAddRoundRetriesProducer(target, res, n) ==
    IF res.err # Nil /\ n >= PollAttempts
    THEN [done |-> TRUE, list |-> <<>>, err |-> res.err]
    ELSE IF res.err = Nil /\ Contains(res.ids, target)
         THEN [done |-> TRUE, list |-> res.ids, err |-> Nil]
         ELSE IF n >= PollAttempts
              THEN [done |-> TRUE, list |-> <<>>, err |-> TimeoutError(target)]
              ELSE [done |-> FALSE, list |-> <<>>, err |-> Nil]

\* One round of WaitForListAdd: res is the producer's result, n the number
\* of producer calls made so far, this one included.
WaitForListAddRound(target, res, n) ==
    IF res.err # Nil
    THEN [done |-> TRUE, list |-> <<>>, err |-> res.err]
    ELSE IF Contains(res.ids, target)
         THEN [done |-> TRUE, list |-> res.ids, err |-> Nil]
         ELSE IF n >= PollAttempts
              THEN [done |-> TRUE, list |-> <<>>, err |-> TimeoutError(target)]
              ELSE [done |-> FALSE, list |-> <<>>, err |-> Nil]

\* Faulty variant: the loop is not left on success before its last iteration.
AfterAddNoBreak(o, k) ==
    IF k = attempts THEN (IF o = "ok" THEN "poll" ELSE "return") ELSE "sleep"

\* Faulty variant: the loop gives up one iteration early.
AfterAddShortLoop(o, k) ==
    IF o = "ok" THEN "poll" ELSE IF k >= attempts - 1 THEN "return" ELSE "sleep"

\* Faulty variant: the loop runs one iteration more before it gives up.
AfterAddLongLoop(o, k) ==
    IF o = "ok" THEN "poll" ELSE IF k = attempts + 1 THEN "return" ELSE "sleep"

\* group.go:128-133: what the retry loop does after an AddMember call that
\* answered o in iteration k.
AfterAdd(o, k) ==
    IF o = "ok" THEN "poll" ELSE IF k = attempts THEN "return" ELSE "sleep"

VARIABLES
    pc,            \* position of the caller
    op,            \* helper the caller invoked
    groupId,       \* its groupId argument
    members,       \* its list argument (members, or owner for GroupAddOwners)
    idx,           \* position of the range loop in the list
    member,        \* member / owner argument of the running GroupAddMember / GroupAddOwner
    i,             \* loop counter of the add-retry loop
    err,           \* err of the last AddMember call
    tries,         \* producer calls made by the running WaitForListAdd
    ret,           \* value returned by the helper
    ctxCancelled,  \* the caller's context is cancelled
    inv,           \* history of the running GroupAddMember / GroupAddOwner invocation
    hist           \* history of the running helper

vars == <<pc, op, groupId, members, idx, member, i, err, tries, ret,
          ctxCancelled, inv, hist>>

(* ------------------------------- remote -------------------------------- *)

\* A remote call made with a cancelled context fails; a live one may
\* succeed or fail either way.
Outcomes == IF ctxCancelled THEN {"cancelled"} ELSE LiveOutcomes

ObjectOf(id) == [kind |-> KindOf[id], id |-> id]

\* The objects of S in the directory's listing order.
ObjectsOf(S) ==
    LET ordered == SelectSeq(ListingOrder, LAMBDA id : id \in S)
    IN  [k \in 1..Len(ordered) |-> ObjectOf(ordered[k])]

\* What GetGroupMembersComplete may answer: a failure, or the members the
\* directory shows at that moment (it is eventually consistent and has other
\* writers, so any set), whose pagination may fail.
ListResponses ==
    IF ctxCancelled
    THEN {[status |-> "cancelled", objects |-> <<>>, failAt |-> 0]}
    ELSE {[status |-> "transient", objects |-> <<>>, failAt |-> 0]}
         \cup UNION {{[status |-> "ok", objects |-> ObjectsOf(S), failAt |-> f] :
                         f \in 0..Cardinality(S)} : S \in SUBSET ObjectIds}

\* The object identifiers GroupMemberIdFrom is given.
ValidIds == UNION {[1..n -> IdChars] : n \in 1..MaxIdLen}

\* The strings ParseGroupMemberId is given: any, well-formed or not.
IdStrings == UNION {[1..n -> Symbols] : n \in 0..MaxIdString}

\* The elements an iterator of directory objects may hold: the objects above
\* and a group that is a member of another group.
IterObjects == {ObjectOf(id) : id \in ObjectIds} \cup {[kind |-> "Group", id |-> "gB"]}

\* The iterators DirectoryObjectListToIDs is given: up to MaxObjects
\* elements in any order, and the advance that fails (0: none).
Iterators ==
    UNION {{[objects |-> os, failAt |-> f] : os \in [1..n -> IterObjects], f \in 0..n}
              : n \in 0..MaxObjects}

\* The answers of the directory to a listing of groups: a failure, an answer
\* without values, or up to MaxPage groups.
GroupPages == UNION {[1..n -> DirGroups] : n \in 0..MaxPage}

GroupResponses ==
    {[status |-> "transient", valuesNil |-> TRUE, values |-> <<>>],
     [status |-> "ok", valuesNil |-> TRUE, values |-> <<>>]}
    \cup {[status |-> "ok", valuesNil |-> FALSE, values |-> vs] : vs \in GroupPages}

\* The answers of client.List to the display-name filter: a failure, or a
\* page of groups, each of which carries its display name (the filter
\* compares it).
NamedPages == UNION {[1..n -> {g \in DirGroups : g.DisplayName # NilString}] : n \in 0..MaxPage}

PageResponses ==
    {[status |-> "transient", values |-> <<>>]}
    \cup {[status |-> "ok", values |-> vs] : vs \in NamedPages}

(* ------------------------------ histories ------------------------------ *)

FreshInv ==
    [addCalls |-> 0, sleeps |-> 0, slept |-> 0, first |-> "none",
     addOk |-> FALSE, afterOk |-> 0,
     listCalls |-> 0, listed |-> {}, waits |-> 0, waited |-> 0, hitAt |-> 0,
     errAt |-> 0, lastList |-> <<>>, polled |-> NoRet, polledList |-> <<>>]

FreshHist(first) ==
    [started |-> first, results |-> <<>>, writes |-> {},
     ownerCalls |-> 0, ownerFirst |-> "none"]

(* -------------------------------- Init --------------------------------- *)

Init ==
    /\ pc = "idle"
    /\ op = "none"
    /\ groupId = "gA"
    /\ members = <<>>
    /\ idx = 0
    /\ member = "u1"
    /\ i = 0
    /\ err = Nil
    /\ tries = 0
    /\ ret = NoRet
    /\ ctxCancelled = FALSE
    /\ inv = FreshInv
    /\ hist = FreshHist(<<>>)

(* ------------------------------- actions ------------------------------- *)

\* GroupAddMember(client, ctx, groupId, member) is entered (group.go:117-126).
CallGroupAddMember(g, m) ==
    /\ pc = "idle"
    /\ op' = "GroupAddMember"
    /\ groupId' = g
    /\ members' = <<>>
    /\ idx' = 0
    /\ member' = m
    /\ i' = 0
    /\ err' = Nil
    /\ tries' = 0
    /\ ret' = NoRet
    /\ ctxCancelled' = FALSE
    /\ inv' = FreshInv
    /\ hist' = FreshHist(<<m>>)
    /\ pc' = "add"

\* GroupAddMembers(client, ctx, groupId, members) is entered (group.go:146-148):
\* an empty list returns nil at once, else GroupAddMember starts for the
\* first member.
CallGroupAddMembers(g, ms) ==
    /\ pc = "idle"
    /\ op' = "GroupAddMembers"
    /\ groupId' = g
    /\ members' = ms
    /\ i' = 0
    /\ err' = Nil
    /\ tries' = 0
    /\ ctxCancelled' = FALSE
    /\ inv' = FreshInv
    /\ IF ms = <<>>
       THEN /\ pc' = "done"
            /\ ret' = Nil
            /\ idx' = 0
            /\ member' = member
            /\ hist' = FreshHist(<<>>)
       ELSE /\ pc' = "add"
            /\ ret' = NoRet
            /\ idx' = 1
            /\ member' = ms[1]
            /\ hist' = FreshHist(<<ms[1]>>)

\* GroupAddMember returns r (group.go:132, 140, 143): to the outside, or to
\* the range loop of GroupAddMembers.
MemberReturns(r, inv1, e, t, h0) ==
    /\ pc' = IF op = "GroupAddMember" THEN "done" ELSE "range"
    /\ ret' = IF op = "GroupAddMember" THEN r ELSE ret
    /\ inv' = inv1
    /\ err' = e
    /\ tries' = t
    /\ hist' = [h0 EXCEPT !.results = Append(@, r)]
    /\ UNCHANGED <<idx, member, i>>

\* Faulty variant: the loop goes on with the next member after a failure.
RangeMembersKeepsGoing ==
    /\ pc = "range"
    /\ IF idx = Len(members)
       THEN /\ pc' = "done"
            /\ ret' = Nil
            /\ UNCHANGED <<idx, member, i, err, tries, inv, hist>>
       ELSE /\ pc' = "add"
            /\ ret' = ret
            /\ idx' = idx + 1
            /\ member' = members[idx + 1]
            /\ i' = 0
            /\ err' = Nil
            /\ tries' = 0
            /\ inv' = FreshInv
            /\ hist' = [hist EXCEPT !.started = Append(@, members[idx + 1])]
    /\ UNCHANGED <<op, groupId, members, ctxCancelled>>

\* The range loop of GroupAddMembers takes the result of GroupAddMember
\* (group.go:147-155): a failure is wrapped and returned, the end of the list
\* returns nil, otherwise GroupAddMember starts for the next member.
RangeMembers ==
    /\ pc = "range"
    /\ LET r == hist.results[Len(hist.results)]
       IN  IF r # Nil
           THEN /\ pc' = "done"
                /\ ret' = AddMembersError(groupId, r)
                /\ UNCHANGED <<idx, member, i, err, tries, inv, hist>>
           ELSE IF idx = Len(members)
           THEN /\ pc' = "done"
                /\ ret' = Nil
                /\ UNCHANGED <<idx, member, i, err, tries, inv, hist>>
           ELSE /\ pc' = "add"
                /\ ret' = ret
                /\ idx' = idx + 1
                /\ member' = members[idx + 1]
                /\ i' = 0
                /\ err' = Nil
                /\ tries' = 0
                /\ inv' = FreshInv
                /\ hist' = [hist EXCEPT !.started = Append(@, members[idx + 1])]
    /\ UNCHANGED <<op, groupId, members, ctxCancelled>>

\* One AddMember call of the retry loop and the branch taken on its result
\* (group.go:127-133).
AddMemberCall ==
    /\ pc = "add"
    /\ \E o \in Outcomes :
         LET inv1 == [inv EXCEPT !.addCalls = @ + 1,
                                 !.first = IF @ = "none" THEN o ELSE @,
                                 !.afterOk = IF inv.addOk THEN @ + 1 ELSE @,
                                 !.addOk = inv.addOk \/ o = "ok"]
             e == IF o = "ok" THEN Nil ELSE RemoteError(o)
             next == AfterAdd(o, i)
             h0 == IF o = "ok"
                   THEN [hist EXCEPT !.writes = @ \cup {<<"AddMember", groupId, member>>}]
                   ELSE hist
         IN  CASE next = "poll" ->
                    /\ pc' = "poll"
                    /\ err' = e
                    /\ inv' = inv1
                    /\ hist' = h0
                    /\ UNCHANGED <<idx, member, i, tries, ret>>
              [] next = "return" ->
                    MemberReturns(AddMemberError(member, groupId, e), inv1, e, tries, h0)
              [] next = "sleep" ->
                    /\ pc' = "sleep"
                    /\ err' = e
                    /\ inv' = inv1
                    /\ hist' = h0
                    /\ UNCHANGED <<idx, member, i, tries, ret>>
    /\ UNCHANGED <<op, groupId, members, ctxCancelled>>

\* time.Sleep(time.Second * 2) and the loop's i++ (group.go:134, 127).
Sleep ==
    /\ pc = "sleep"
    /\ pc' = "add"
    /\ i' = i + 1
    /\ inv' = [inv EXCEPT !.sleeps = @ + 1, !.slept = @ + SleepSeconds]
    /\ UNCHANGED <<op, groupId, members, idx, member, err, tries, ret,
                   ctxCancelled, hist>>

\* Faulty variant: the producer lists the group once and answers the later
\* polls from that listing.
PollCallCached ==
    /\ pc = "poll"
    /\ \E resp \in ListResponses :
         LET res == IF tries = 0
                    THEN GroupAllMembers(groupId, resp)
                    ELSE [ids |-> inv.lastList, err |-> Nil]
             round == WaitForListAddRound(member, res, tries + 1)
             inv1 == [inv EXCEPT !.listCalls = IF tries = 0 THEN @ + 1 ELSE @,
                                 !.listed = @ \cup {groupId},
                                 !.lastList = res.ids,
                                 !.hitAt = IF @ = 0 /\ res.err = Nil /\ Contains(res.ids, member)
                                           THEN inv.listCalls + 1 ELSE @,
                                 !.errAt = IF @ = 0 /\ res.err # Nil
                                           THEN inv.listCalls + 1 ELSE @,
                                 !.polled = IF round.done THEN round.err ELSE @,
                                 !.polledList = round.list]
         IN  IF round.done
             THEN MemberReturns(PollResult(round.err), inv1, err, tries + 1, hist)
             ELSE /\ pc' = "pollWait"
                  /\ tries' = tries + 1
                  /\ inv' = inv1
                  /\ UNCHANGED <<idx, member, i, err, ret, hist>>
    /\ UNCHANGED <<op, groupId, members, ctxCancelled>>

\* One producer call of WaitForListAdd, GroupAllMembers(client, ctx, groupId),
\* and what WaitForListAdd and then GroupAddMember do with its result
\* (group.go:137-143).
PollCall ==
    /\ pc = "poll"
    /\ \E resp \in ListResponses :
         LET res == GroupAllMembers(groupId, resp)
             round == WaitForListAddRound(member, res, tries + 1)
             inv1 == [inv EXCEPT !.listCalls = @ + 1,
                                 !.listed = @ \cup {groupId},
                                 !.lastList = res.ids,
                                 !.hitAt = IF @ = 0 /\ res.err = Nil /\ Contains(res.ids, member)
                                           THEN inv.listCalls + 1 ELSE @,
                                 !.errAt = IF @ = 0 /\ res.err # Nil
                                           THEN inv.listCalls + 1 ELSE @,
                                 !.polled = IF round.done THEN round.err ELSE @,
                                 !.polledList = round.list]
         IN  IF round.done
             THEN MemberReturns(PollResult(round.err), inv1, err, tries + 1, hist)
             ELSE /\ pc' = "pollWait"
                  /\ tries' = tries + 1
                  /\ inv' = inv1
                  /\ UNCHANGED <<idx, member, i, err, ret, hist>>
    /\ UNCHANGED <<op, groupId, members, ctxCancelled>>

\* The delay WaitForListAdd waits between two producer calls.
PollWait ==
    /\ pc = "pollWait"
    /\ pc' = "poll"
    /\ inv' = [inv EXCEPT !.waits = @ + 1, !.waited = @ + PollDelay]
    /\ UNCHANGED <<op, groupId, members, idx, member, i, err, tries, ret,
                   ctxCancelled, hist>>

\* GroupAddOwner(client, ctx, groupId, owner) is entered (group.go:174-181).
CallGroupAddOwner(g, o) ==
    /\ pc = "idle"
    /\ op' = "GroupAddOwner"
    /\ groupId' = g
    /\ members' = <<>>
    /\ idx' = 0
    /\ member' = o
    /\ i' = 0
    /\ err' = Nil
    /\ tries' = 0
    /\ ret' = NoRet
    /\ ctxCancelled' = FALSE
    /\ inv' = FreshInv
    /\ hist' = FreshHist(<<o>>)
    /\ pc' = "addOwner"

\* GroupAddOwners(client, ctx, groupId, owner) is entered (group.go:189-191).
CallGroupAddOwners(g, os) ==
    /\ pc = "idle"
    /\ op' = "GroupAddOwners"
    /\ groupId' = g
    /\ members' = os
    /\ i' = 0
    /\ err' = Nil
    /\ tries' = 0
    /\ ctxCancelled' = FALSE
    /\ inv' = FreshInv
    /\ IF os = <<>>
       THEN /\ pc' = "done"
            /\ ret' = Nil
            /\ idx' = 0
            /\ member' = member
            /\ hist' = FreshHist(<<>>)
       ELSE /\ pc' = "addOwner"
            /\ ret' = NoRet
            /\ idx' = 1
            /\ member' = os[1]
            /\ hist' = FreshHist(<<os[1]>>)

\* GroupAddOwner returns r (group.go:183, 186): to the outside, or to the
\* range loop of GroupAddOwners.
OwnerReturns(r, h0) ==
    /\ pc' = IF op = "GroupAddOwner" THEN "done" ELSE "rangeOwners"
    /\ ret' = IF op = "GroupAddOwner" THEN r ELSE ret
    /\ hist' = [h0 EXCEPT !.results = Append(@, r)]
    /\ UNCHANGED <<idx, member>>

\* Faulty variant: the loop goes on with the next owner after a failure.
RangeOwnersKeepsGoing ==
    /\ pc = "rangeOwners"
    /\ IF idx = Len(members)
       THEN /\ pc' = "done"
            /\ ret' = Nil
            /\ UNCHANGED <<idx, member, hist>>
       ELSE /\ pc' = "addOwner"
            /\ ret' = ret
            /\ idx' = idx + 1
            /\ member' = members[idx + 1]
            /\ hist' = [hist EXCEPT !.started = Append(@, members[idx + 1])]
    /\ UNCHANGED <<op, groupId, members, i, err, tries, ctxCancelled, inv>>

\* The range loop of GroupAddOwners takes the result of GroupAddOwner
\* (group.go:190-198).
RangeOwners ==
    /\ pc = "rangeOwners"
    /\ LET r == hist.results[Len(hist.results)]
       IN  IF r # Nil
           THEN /\ pc' = "done"
                /\ ret' = AddOwnersError(groupId, r)
                /\ UNCHANGED <<idx, member, hist>>
           ELSE IF idx = Len(members)
           THEN /\ pc' = "done"
                /\ ret' = Nil
                /\ UNCHANGED <<idx, member, hist>>
           ELSE /\ pc' = "addOwner"
                /\ ret' = ret
                /\ idx' = idx + 1
                /\ member' = members[idx + 1]
                /\ hist' = [hist EXCEPT !.started = Append(@, members[idx + 1])]
    /\ UNCHANGED <<op, groupId, members, i, err, tries, ctxCancelled, inv>>

\* Faulty variant: a failed AddOwner call is tried once more.
AddOwnerCallRetrying ==
    /\ pc = "addOwner"
    /\ \E o \in Outcomes :
         LET h0 == [hist EXCEPT !.ownerCalls = @ + 1,
                                !.ownerFirst = IF @ = "none" THEN o ELSE @,
                                !.writes = IF o = "ok"
                                           THEN @ \cup {<<"AddOwner", groupId, member>>}
                                           ELSE @]
         IN  IF o # "ok" /\ hist.ownerCalls = Len(hist.results)
             THEN /\ hist' = h0
                  /\ UNCHANGED <<pc, ret, idx, member>>
             ELSE OwnerReturns(IF o = "ok" THEN Nil
                               ELSE AddOwnerError(member, groupId, RemoteError(o)), h0)
    /\ UNCHANGED <<op, groupId, members, i, err, tries, ctxCancelled, inv>>

\* The body of GroupAddOwner: its one AddOwner call and its return
\* (group.go:182-186).
AddOwnerCall ==
    /\ pc = "addOwner"
    /\ \E o \in Outcomes :
         LET h0 == [hist EXCEPT !.ownerCalls = @ + 1,
                                !.ownerFirst = IF @ = "none" THEN o ELSE @,
                                !.writes = IF o = "ok"
                                           THEN @ \cup {<<"AddOwner", groupId, member>>}
                                           ELSE @]
         IN  OwnerReturns(IF o = "ok" THEN Nil
                          ELSE AddOwnerError(member, groupId, RemoteError(o)), h0)
    /\ UNCHANGED <<op, groupId, members, i, err, tries, ctxCancelled, inv>>

\* The caller cancels the context of the running helper.
Cancel ==
    /\ pc \notin {"idle", "done"}
    /\ ~ctxCancelled
    /\ ctxCancelled' = TRUE
    /\ UNCHANGED <<pc, op, groupId, members, idx, member, i, err, tries, ret,
                   inv, hist>>

\* A helper that makes one remote call runs as a whole: helper h is called
\* with the string argument arg, the directory answers answer, and the
\* helper returns result.
RunsWhole(h, g, arg, answer, result) ==
    /\ pc = "idle"
    /\ pc' = "done"
    /\ op' = h
    /\ groupId' = g
    /\ member' = arg
    /\ ret' = result
    /\ hist' = FreshHist(<<>>) @@ [answer |-> answer]
    /\ UNCHANGED <<members, idx, i, err, tries, ctxCancelled, inv>>

\* GroupGetByDisplayName(client, ctx, displayName) (group.go:39-67).
CallGroupGetByDisplayName(displayName, resp) ==
    RunsWhole("GroupGetByDisplayName", groupId, displayName, resp,
              GroupGetByDisplayName(displayName, resp))

\* GroupMemberIdFrom(groupId, memberId) (group.go:18-24).
CallGroupMemberIdFrom(g, m) ==
    RunsWhole("GroupMemberIdFrom", groupId, member, [groupId |-> g, memberId |-> m],
              GroupMemberIdFrom(g, m))

\* ParseGroupMemberId(idString) (group.go:26-37).
CallParseGroupMemberId(idString) ==
    RunsWhole("ParseGroupMemberId", groupId, member, idString,
              ParseGroupMemberId(idString))

\* DirectoryObjectListToIDs(objects, ctx) (group.go:69-98).
CallDirectoryObjectListToIDs(it) ==
    RunsWhole("DirectoryObjectListToIDs", groupId, member, it,
              DirectoryObjectListToIDs(it.objects, it.failAt))

\* GroupAllMembers(client, ctx, groupId) (group.go:100-115).
CallGroupAllMembers(g, resp) ==
    RunsWhole("GroupAllMembers", g, member, resp, GroupAllMembers(g, resp))

\* GroupAllOwners(client, ctx, groupId) (group.go:158-172).
CallGroupAllOwners(g, resp) ==
    RunsWhole("GroupAllOwners", g, member, resp, GroupAllOwners(g, resp))

\* GroupFindByName(client, ctx, name) (group.go:201-216).
CallGroupFindByName(name, resp) ==
    RunsWhole("GroupFindByName", groupId, name, resp, GroupFindByName(name, resp))

\* GroupCheckNameAvailability(client, ctx, name) (group.go:218-227).
CallGroupCheckNameAvailability(name, resp) ==
    \E w \in WarnfResults(name, GroupFindByName(name, resp).group.ObjectID) :
        RunsWhole("GroupCheckNameAvailability", groupId, name, resp,
                  GroupCheckNameAvailability(name, resp, w))

\* The caller has taken the helper's result; nothing of the call is kept.
Finish ==
    /\ pc = "done"
    /\ pc' = "idle"
    /\ op' = "none"
    /\ groupId' = "gA"
    /\ members' = <<>>
    /\ idx' = 0
    /\ member' = "u1"
    /\ i' = 0
    /\ err' = Nil
    /\ tries' = 0
    /\ ret' = NoRet
    /\ ctxCancelled' = FALSE
    /\ inv' = FreshInv
    /\ hist' = FreshHist(<<>>)

Next ==
    \/ \E g \in Groups, m \in ObjectIds : CallGroupAddMember(g, m)
    \/ \E g \in Groups, ms \in Lists : CallGroupAddMembers(g, ms)
    \/ AddMemberCall
    \/ Sleep
    \/ PollCall
    \/ PollWait
    \/ RangeMembers
    \/ \E g \in Groups, o \in ObjectIds : CallGroupAddOwner(g, o)
    \/ \E g \in Groups, os \in Lists : CallGroupAddOwners(g, os)
    \/ AddOwnerCall
    \/ RangeOwners
    \/ pc = "idle" /\ \E n \in Names, resp \in GroupResponses : CallGroupGetByDisplayName(n, resp)
    \/ pc = "idle" /\ \E g \in ValidIds, m \in ValidIds : CallGroupMemberIdFrom(g, m)
    \/ pc = "idle" /\ \E idString \in IdStrings : CallParseGroupMemberId(idString)
    \/ pc = "idle" /\ \E it \in Iterators : CallDirectoryObjectListToIDs(it)
    \/ pc = "idle" /\ \E g \in Groups, resp \in ListResponses : CallGroupAllMembers(g, resp)
    \/ pc = "idle" /\ \E g \in Groups, resp \in ListResponses : CallGroupAllOwners(g, resp)
    \/ pc = "idle" /\ \E n \in Names, resp \in PageResponses : CallGroupFindByName(n, resp)
    \/ pc = "idle" /\ \E n \in Names, resp \in PageResponses : CallGroupCheckNameAvailability(n, resp)
    \/ Cancel
    \/ Finish

Spec == Init /\ [][Next]_vars

(* ------------------------------- claims -------------------------------- *)

MemberOp == op \in {"GroupAddMember", "GroupAddMembers"}

\* The running GroupAddMember / GroupAddOwner invocation has returned.
Returned == pc \in {"done", "range", "rangeOwners"} /\ Len(hist.results) = Len(hist.started)
            /\ hist.results # <<>>

LastResult == hist.results[Len(hist.results)]

\* C1: while every AddMember call of a GroupAddMember invocation has failed,
\* a sleep of 2 seconds separates consecutive attempts and WaitForListAdd is
\* not invoked; when the invocation returns in that case it has issued
\* exactly 11 AddMember calls and 10 sleeps (20 seconds, none after the last
\* attempt), and it returns the error naming member and group that wraps
\* the error of the last attempt.
C1_RetryExhausted ==
    (MemberOp /\ hist.started # <<>> /\ ~inv.addOk) =>
        /\ inv.listCalls = 0 /\ tries = 0 /\ inv.waits = 0
        /\ inv.sleeps = i
        /\ inv.slept = 2 * inv.sleeps
        /\ inv.addCalls = (IF pc = "add" THEN i ELSE i + 1)
        /\ (Returned /\ inv.addCalls > 0) =>
              /\ inv.addCalls = 11
              /\ inv.sleeps = 10
              /\ inv.slept = 20
              /\ err # Nil
              /\ LastResult = AddMemberError(member, groupId, err)
              /\ LastResult.member = hist.started[Len(hist.started)]

C1_Witness ==
    /\ op = "GroupAddMember" /\ pc = "done" /\ ~inv.addOk
    /\ inv.addCalls = 11 /\ inv.sleeps = 10 /\ inv.listCalls = 0
    /\ inv.first = "transient"
    /\ ret = AddMemberError("sp1", "gB", RemoteError("permanent"))

\* C2: once an AddMember call of a GroupAddMember invocation has succeeded,
\* on attempt k, the invocation has made exactly k AddMember calls
\* (1 <= k <= 11) and k - 1 sleeps, it is out of the retry loop, and it has
\* issued no AddMember call after the successful one.
C2_StopsOnSuccess ==
    (MemberOp /\ inv.addOk) =>
        /\ inv.addCalls \in 1..11
        /\ inv.addCalls = i + 1
        /\ inv.sleeps = inv.addCalls - 1
        /\ inv.slept = 2 * inv.sleeps
        /\ inv.afterOk = 0
        /\ pc \notin {"add", "sleep"}
        /\ err = Nil

C2_Witness ==
    /\ op = "GroupAddMember" /\ pc = "done" /\ inv.addOk /\ ret = Nil
    /\ inv.addCalls = 4 /\ inv.sleeps = 3

\* C3: after a successful AddMember call GroupAddMember has not returned
\* before WaitForListAdd has been run with a producer that lists the members
\* of this group; it returns nil only if WaitForListAdd returned no error and
\* a listing of the group made after the add contained the member, and it
\* returns the wrapped error if WaitForListAdd returned one.
C3_ReturnsAfterPoll ==
    MemberOp =>
        /\ (inv.addOk /\ inv.listCalls = 0) => pc = "poll"
        /\ inv.listCalls > 0 => (inv.addOk /\ inv.listed = {groupId})
        /\ (Returned /\ inv.addOk) =>
              /\ inv.listCalls >= 1
              /\ inv.polled # NoRet
              /\ LastResult = (IF inv.polled = Nil THEN Nil ELSE WaitError(inv.polled))
        /\ (Returned /\ LastResult = Nil) =>
              /\ inv.addOk
              /\ inv.polled = Nil
              /\ inv.hitAt >= 1
              /\ Contains(inv.lastList, member)

C3_Witness ==
    /\ op = "GroupAddMember" /\ pc = "done" /\ inv.addOk
    /\ inv.polled = TimeoutError("u1")
    /\ ret = WaitError(TimeoutError("u1"))

\* C4: GroupAddMembers starts GroupAddMember for the members in list order,
\* the next one only after the one before returned nil; when a GroupAddMember
\* fails it returns the error naming the group that wraps this failure and
\* has started no GroupAddMember for a later member; the only remote writes it
\* issued are AddMember calls (no removal), those of the members added
\* before among them; it returns nil only if every member's GroupAddMember
\* returned nil.
C4_SequentialAbort ==
    op = "GroupAddMembers" =>
        /\ Len(hist.started) = idx
        /\ idx <= Len(members)
        /\ hist.started = SubSeq(members, 1, idx)
        /\ Len(hist.results) \in {idx - 1, idx} \cap 0..idx
        /\ \A k \in 1..Len(hist.results) :
              k < idx => hist.results[k] = Nil
        /\ \A w \in hist.writes : w[1] = "AddMember" /\ w[2] = groupId
        /\ \A k \in 1..Len(hist.results) :
              hist.results[k] = Nil => <<"AddMember", groupId, members[k]>> \in hist.writes
        /\ pc = "done" =>
              /\ Len(hist.results) = idx
              /\ IF ret = Nil
                 THEN /\ idx = Len(members)
                      /\ \A k \in 1..idx : hist.results[k] = Nil
                 ELSE /\ hist.results[idx] # Nil
                      /\ ret = AddMembersError(groupId, hist.results[idx])

C4_Witness ==
    /\ op = "GroupAddMembers" /\ pc = "done"
    /\ members = <<"u1", "sp1">>
    /\ idx = 1
    /\ ret = AddMembersError("gA", WaitError(TimeoutError("u1")))
    /\ hist.writes = {<<"AddMember", "gA", "u1">>}

\* C5 (as claimed): once the context is cancelled the retry loop of
\* GroupAddMember performs no further AddMember call and no further sleep,
\* and WaitForListAdd schedules no further round.
C5_CancelStopsRetry ==
    [][(MemberOp /\ ctxCancelled) =>
          /\ pc \in {"add", "sleep"} =>
                (inv'.addCalls = inv.addCalls /\ inv'.sleeps = inv.sleeps)
          /\ pc = "poll" => pc' # "pollWait"]_vars

\* C6 (as claimed): a permanent failure of the first add call of
\* GroupAddMember or GroupAddOwner gives an error return after exactly one
\* remote add call.
C6_PermanentNotRetried ==
    /\ (op = "GroupAddMember" /\ pc = "done" /\ inv.first = "permanent") =>
          (IsError(ret) /\ inv.addCalls = 1)
    /\ (op = "GroupAddOwner" /\ pc = "done" /\ hist.ownerFirst = "permanent") =>
          (IsError(ret) /\ hist.ownerCalls = 1)

\* C6 (amended): only GroupAddOwner surfaces a permanent failure of its add
\* call at once, returning an error after exactly one AddOwner call;
\* GroupAddMember retries a permanent failure like any other: after a
\* permanent failure of its first AddMember call it sleeps and tries again,
\* and it returns the add error only after 11 failed AddMember calls.
C6_PermanentRetriedByAddMember ==
    /\ (op = "GroupAddOwner" /\ pc = "done" /\ hist.ownerFirst = "permanent") =>
          (ret = AddOwnerError(member, groupId, RemoteError("permanent"))
           /\ hist.ownerCalls = 1)
    /\ (op = "GroupAddMember" /\ inv.first = "permanent") =>
          /\ inv.addCalls = 1 =>
                (pc \in {"sleep", "add"} /\ i = (IF pc = "add" THEN 1 ELSE 0) /\ ret = NoRet)
          /\ (pc = "done" /\ ~inv.addOk) => inv.addCalls = 11

C6_Witness ==
    /\ op = "GroupAddMember" /\ pc = "done" /\ inv.first = "permanent"
    /\ inv.addCalls = 2 /\ inv.sleeps = 1 /\ ret = Nil

\* C7: a GroupAddOwner invocation issues exactly one AddOwner call, never
\* sleeps, lists nothing and polls nothing; it returns nil if the call
\* succeeded and otherwise the error naming owner and group that wraps the
\* call's error.
C7_OwnerSingleAttempt ==
    op = "GroupAddOwner" =>
        /\ hist.ownerCalls = (IF pc = "done" THEN 1 ELSE 0)
        /\ inv.sleeps = 0 /\ inv.slept = 0
        /\ inv.listCalls = 0 /\ inv.waits = 0 /\ tries = 0 /\ inv.addCalls = 0
        /\ pc \in {"addOwner", "done"}
        /\ pc = "done" =>
              ret = (IF hist.ownerFirst = "ok" THEN Nil
                     ELSE AddOwnerError(member, groupId, RemoteError(hist.ownerFirst)))

C7_Witness ==
    /\ op = "GroupAddOwner" /\ pc = "done" /\ hist.ownerCalls = 1
    /\ ret = AddOwnerError("sp1", "gB", RemoteError("transient"))

\* C8: GroupAddOwners applies GroupAddOwner to the owners in list order; it
\* has issued one AddOwner call per owner started; at the first failing
\* owner it returns the error naming the group, so that the number of
\* AddOwner calls is the 1-based index of the first failure, or the length
\* of the list if none fails; the only remote writes are the AddOwner calls
\* that succeeded (nothing is rolled back).
C8_OwnersSequentialAbort ==
    op = "GroupAddOwners" =>
        /\ Len(hist.started) = idx
        /\ idx <= Len(members)
        /\ hist.started = SubSeq(members, 1, idx)
        /\ hist.ownerCalls = Len(hist.results)
        /\ Len(hist.results) \in {idx - 1, idx} \cap 0..idx
        /\ \A k \in 1..Len(hist.results) : k < idx => hist.results[k] = Nil
        /\ hist.writes = {<<"AddOwner", groupId, members[k]>> :
                             k \in {n \in 1..Len(hist.results) : hist.results[n] = Nil}}
        /\ inv.listCalls = 0 /\ inv.addCalls = 0
        /\ pc = "done" =>
              /\ hist.ownerCalls = idx
              /\ IF \E k \in 1..idx : hist.results[k] # Nil
                 THEN /\ hist.results[idx] # Nil
                      /\ ret = AddOwnersError(groupId, hist.results[idx])
                 ELSE /\ idx = Len(members)
                      /\ ret = Nil

C8_Witness ==
    /\ op = "GroupAddOwners" /\ pc = "done"
    /\ Len(members) = 2 /\ idx = 1 /\ hist.ownerCalls = 1
    /\ IsError(ret)

\* C9: once a producer call of WaitForListAdd has returned a list that
\* contains the target, WaitForListAdd has returned success with that very
\* list and has made no further producer call; in GroupAddMember no listing
\* of the group's members follows the first one that contains the member.
C9_PollStopsOnHit ==
    (MemberOp /\ inv.hitAt # 0) =>
        /\ inv.listCalls = inv.hitAt
        /\ tries = inv.hitAt
        /\ inv.polled = Nil
        /\ inv.polledList = inv.lastList
        /\ Contains(inv.polledList, member)
        /\ pc \notin {"poll", "pollWait"}
        /\ Returned /\ LastResult = Nil

C9_Witness ==
    /\ op = "GroupAddMember" /\ pc = "done" /\ inv.hitAt = 1 /\ inv.listCalls = 1
    /\ inv.polledList = <<"u1", "sp1">> /\ member = "sp1" /\ ret = Nil

\* C10: while no producer result has contained the target, WaitForListAdd
\* has not returned success, has made at most PollAttempts producer calls,
\* and has waited the fixed delay once between consecutive calls; if no
\* producer call failed either, it returns, after PollAttempts calls, the
\* timeout error that names the target.
C10_PollTimesOut ==
    (MemberOp /\ inv.hitAt = 0) =>
        /\ inv.polled # Nil
        /\ inv.listCalls <= PollAttempts
        /\ inv.listCalls = tries
        /\ inv.waits = (IF pc = "poll" \/ inv.listCalls = 0 THEN inv.listCalls
                         ELSE inv.listCalls - 1)
        /\ inv.waited = inv.waits * PollDelay
        /\ inv.polled = TimeoutError(member) =>
              (inv.listCalls = PollAttempts /\ inv.waits = PollAttempts - 1)
        /\ (Returned /\ inv.addOk) =>
              /\ IsError(inv.polled)
              /\ inv.listCalls = PollAttempts => inv.polled.kind \in
                    {"timeout", "listing existing group members",
                     "getting objects IDs of group members"}
              /\ inv.polled.kind = "timeout" => inv.polled.target = member

C10_Witness ==
    /\ op = "GroupAddMember" /\ pc = "done" /\ inv.hitAt = 0
    /\ inv.listCalls = PollAttempts /\ inv.waits = PollAttempts - 1
    /\ inv.polled = TimeoutError("app1")
    /\ ret = WaitError(TimeoutError("app1"))

\* C11: once a producer call of WaitForListAdd has returned an error,
\* WaitForListAdd has returned that error and has made no further producer
\* call; so after a failed member listing GroupAddMember has returned the
\* wrapped listing error, which names the group, without listing again and
\* without a further AddMember call, although its add had succeeded.
C11_ProducerErrorSurfaced ==
    (MemberOp /\ inv.errAt # 0) =>
        /\ inv.listCalls = inv.errAt
        /\ tries = inv.errAt
        /\ inv.hitAt = 0
        /\ inv.polled.kind \in {"listing existing group members",
                                 "getting objects IDs of group members"}
        /\ inv.polled.group = groupId
        /\ Returned /\ LastResult = WaitError(inv.polled)
        /\ inv.addOk /\ inv.afterOk = 0 /\ inv.addCalls = i + 1
        /\ pc \notin {"add", "sleep", "poll", "pollWait"}

C11_Witness ==
    /\ op = "GroupAddMember" /\ pc = "done" /\ inv.errAt = 2 /\ inv.listCalls = 2
    /\ ~ctxCancelled /\ inv.addCalls = 2
    /\ ret = WaitError(ListMembersError("gB", RemoteError("transient")))

\* C12: GroupGetByDisplayName returns a group only if the listing answered
\* one or two groups and the display name of the first equals the query, and
\* that group is the one returned; it fails on zero groups, on more than two,
\* and on a first group of another (or no) display name.
C12_StrictLookup ==
    (op = "GroupGetByDisplayName" /\ pc = "done") =>
        LET a == hist.answer
            n == Len(a.values)
        IN  /\ ret.err = Nil =>
                  /\ a.status = "ok" /\ ~a.valuesNil
                  /\ n \in {1, 2}
                  /\ ret.group = a.values[1]
                  /\ ret.group.DisplayName = member
            /\ ret.err # Nil => ret.group = NilGroup
            /\ (a.status = "ok" /\ ~a.valuesNil /\ n = 0) =>
                  ret.err = LookupError("found no AD Groups matching", NameFilter(member))
            /\ n > 2 =>
                  ret.err = LookupError("found multiple AD Groups matching", NameFilter(member))
            /\ (n \in {1, 2} /\ a.values[1].DisplayName # member) => ret.err # Nil
            /\ (n \in {1, 2} /\ a.values[1].DisplayName = member) => ret.err = Nil

C12_Witness ==
    /\ op = "GroupGetByDisplayName" /\ pc = "done"
    /\ Len(hist.answer.values) = 2
    /\ member = "dev"
    /\ hist.answer.values[2].DisplayName = "Dev"
    /\ ret = [group |-> [ObjectID |-> "o2", DisplayName |-> "dev"], err |-> Nil]

\* C20: when the listing answers two groups, the result of
\* GroupGetByDisplayName is decided by the first alone: the first group if
\* its display name equals the query, an error otherwise, whatever the
\* second group is.
C20_OnlyFirstOfTwo ==
    (op = "GroupGetByDisplayName" /\ pc = "done" /\ Len(hist.answer.values) = 2) =>
        LET first == hist.answer.values[1]
        IN  IF first.DisplayName = member
            THEN ret = [group |-> first, err |-> Nil]
            ELSE /\ ret.group = NilGroup
                 /\ ret.err \in
                      {LookupError("nil DisplayName for AD Groups matching", NameFilter(member)),
                       MismatchError(NameFilter(member), first.DisplayName, member)}

C20_Witness ==
    /\ op = "GroupGetByDisplayName" /\ pc = "done"
    /\ Len(hist.answer.values) = 2
    /\ member = "dev"
    /\ hist.answer.values[1].DisplayName = "Dev"
    /\ hist.answer.values[2].DisplayName = "dev"
    /\ ret.err = MismatchError(NameFilter("dev"), "Dev", "dev")

\* C20, its other case: the lookup succeeds although two groups carry the
\* display name asked for.
C20_TwoHomonyms ==
    /\ op = "GroupGetByDisplayName" /\ pc = "done"
    /\ hist.answer.values = <<[ObjectID |-> "o2", DisplayName |-> "dev"],
                               [ObjectID |-> "o1", DisplayName |-> "dev"]>>
    /\ ret = [group |-> [ObjectID |-> "o2", DisplayName |-> "dev"], err |-> Nil]

\* The positions of the page whose group has exactly the display name asked for.
ExactMatches == {k \in 1..Len(hist.answer.values) : hist.answer.values[k].DisplayName = member}

C14_DuplicateRejected ==
    (op = "GroupCheckNameAvailability" /\ pc = "done") =>
        IF hist.answer.status # "ok"
        THEN ret = GroupFindByName(member, hist.answer).err /\ ret # Nil
        ELSE IF ExactMatches = {}
        THEN ret = Nil
        ELSE LET k == CHOOSE n \in ExactMatches : \A j \in ExactMatches : n <= j
             IN  /\ IsError(ret)
                 /\ ret.objectID = hist.answer.values[k].ObjectID

Recognised == {"User", "Group", "ServicePrincipal"}

\* C15: when no advance fails, DirectoryObjectListToIDs returns the
\* identifiers of the user, group and service-principal elements of the
\* iterator in their original order, one per such element and none for an
\* element of another variant, so as many identifiers as recognised
\* elements.
C15_RecognisedInOrder ==
    (op = "DirectoryObjectListToIDs" /\ pc = "done" /\ hist.answer.failAt = 0) =>
        LET rec == SelectSeq(hist.answer.objects, LAMBDA v : v.kind \in Recognised)
        IN  /\ ret.err = Nil
            /\ Len(ret.ids) = Cardinality({k \in 1..Len(hist.answer.objects) :
                                             hist.answer.objects[k].kind \in Recognised})
            /\ ret.ids = [k \in 1..Len(rec) |-> rec[k].id]

C15_Witness ==
    /\ op = "DirectoryObjectListToIDs" /\ pc = "done"
    /\ hist.answer.failAt = 0
    /\ hist.answer.objects = <<ObjectOf("u1"), [kind |-> "Group", id |-> "gB"],
                               ObjectOf("app1"), ObjectOf("sp1")>>
    /\ ret.ids = <<"u1", "gB", "sp1">>

\* C16: when an advance of the pagination fails, DirectoryObjectListToIDs
\* returns the pagination error and no identifier, whatever it had
\* collected, and GroupAllMembers and GroupAllOwners return no list and an
\* error that names the group and wraps the pagination error.
C16_PaginationAborts ==
    /\ (op = "DirectoryObjectListToIDs" /\ pc = "done" /\ hist.answer.failAt # 0) =>
            /\ ret.ids = <<>>
            /\ ret.err = PaginationError(RemoteError("transient"))
    /\ (/\ op \in {"GroupAllMembers", "GroupAllOwners"} /\ pc = "done"
        /\ hist.answer.status = "ok" /\ hist.answer.failAt # 0) =>
            /\ ret.ids = <<>>
            /\ IsError(ret.err)
            /\ ret.err.group = groupId
            /\ ret.err.cause = PaginationError(RemoteError("transient"))
            /\ ret.err.kind = (IF op = "GroupAllMembers"
                               THEN "getting objects IDs of group members"
                               ELSE "getting objects IDs of group owners")

C16_Witness ==
    /\ op = "DirectoryObjectListToIDs" /\ pc = "done"
    /\ hist.answer.failAt = 3
    /\ hist.answer.objects[1].kind = "User" /\ hist.answer.objects[2].kind = "Group"
    /\ ret.ids = <<>> /\ ret.err # Nil

\* A listing of owners whose second advance fails: no list, an error naming
\* the group.
C16_OwnersListingAborted ==
    /\ op = "GroupAllOwners" /\ pc = "done" /\ groupId = "gB"
    /\ hist.answer.status = "ok" /\ hist.answer.failAt = 2
    /\ ret.ids = <<>> /\ ret.err.group = "gB"

\* The pairs of object identifiers of which str is the "member" composite.
Composes(str) ==
    {pair \in {<<g, m>> : g \in {SubSeq(str, 1, k) : k \in 1..Len(str)},
                          m \in {SubSeq(str, k, Len(str)) : k \in 1..Len(str)}} :
        /\ WellFormedId(pair[1]) /\ WellFormedId(pair[2])
        /\ str = pair[1] \o <<"/", "member", "/">> \o pair[2]}

\* C17: parsing the string form of GroupMemberIdFrom(groupId, memberId)
\* succeeds and yields that group and that member; ParseGroupMemberId
\* accepts a string exactly when it is the "member" composite of two object
\* identifiers, yields those two, and rejects every other string with an
\* error and no identifier.
C17_RoundTrip ==
    /\ (op = "GroupMemberIdFrom" /\ pc = "done") =>
            LET back == ParseGroupMemberId(String(ret.ObjectSubResourceId))
            IN  /\ back.err = Nil
                /\ back.id = ret
                /\ back.id.GroupId = hist.answer.groupId
                /\ back.id.MemberId = hist.answer.memberId
    /\ (op = "ParseGroupMemberId" /\ pc = "done") =>
            IF Composes(hist.answer) = {}
            THEN ret.err # Nil /\ IsError(ret.err) /\ ret.id = NoGroupMemberId
            ELSE /\ ret.err = Nil
                 /\ <<ret.id.GroupId, ret.id.MemberId>> \in Composes(hist.answer)
                 /\ String(ret.id.ObjectSubResourceId) = hist.answer

C17_Witness ==
    /\ op = "ParseGroupMemberId" /\ pc = "done"
    /\ hist.answer = <<"a", "/", "member", "/", "a", "a">>
    /\ ret.err = Nil
    /\ ret.id.GroupId = <<"a">> /\ ret.id.MemberId = <<"a", "a">>

\* A composite of the other tag is rejected.
C17_OwnerTagRejected ==
    /\ op = "ParseGroupMemberId" /\ pc = "done"
    /\ hist.answer = <<"a", "/", "owner", "/", "a">>
    /\ ret.err # Nil

\* The identifier built from a group and a member of different lengths.
C17_Built ==
    /\ op = "GroupMemberIdFrom" /\ pc = "done"
    /\ ret.GroupId = <<"a", "a">> /\ ret.MemberId = <<"a">>

\* The positions of a running GroupAddMember invocation.
Running == {"add", "sleep", "poll", "pollWait"}

\* The most steps a poll can take, plus one.
PollSteps == 2 * PollAttempts + 1

\* An upper bound of the steps a GroupAddMember invocation has left.
Measure ==
    CASE pc = "add" -> 2 * (attempts - i) + 1 + PollSteps
      [] pc = "sleep" -> 2 * (attempts - i) + PollSteps
      [] pc = "poll" -> 2 * (PollAttempts - tries)
      [] pc = "pollWait" -> 2 * (PollAttempts - tries) + 1
      [] OTHER -> 0

\* The counts of a GroupAddMember invocation stay within their budgets, and
\* the poll counts its listings from zero whatever the retry loop used.
C18_Budgets ==
    MemberOp =>
        /\ inv.addCalls <= 11
        /\ inv.sleeps <= 10
        /\ inv.slept <= 20
        /\ inv.listCalls <= PollAttempts
        /\ inv.listCalls = tries
        /\ i <= attempts
        /\ Measure \in Nat

\* Every step of a running GroupAddMember invocation, whatever the directory
\* answers, leaves fewer steps to take.
C18_Decreases ==
    (pc \in Running /\ ctxCancelled' = ctxCancelled) => Measure' < Measure

\* C18: every GroupAddMember invocation terminates under any sequence of
\* remote outcomes: its retry loop makes at most 11 AddMember calls and 10
\* sleeps, its poll makes at most PollAttempts listings counted from zero
\* whatever the retry loop used, and every step brings the return nearer.
C18_Terminates == []C18_Budgets /\ [][C18_Decreases]_vars

C18_Witness ==
    /\ op = "GroupAddMember" /\ pc = "done"
    /\ inv.addCalls = 11 /\ inv.sleeps = 10
    /\ inv.listCalls = PollAttempts

\* The poll spends its whole budget after a first AddMember call that succeeded.
C18_FullPollAfterOneAdd ==
    /\ op = "GroupAddMember" /\ pc = "done"
    /\ inv.addCalls = 1 /\ inv.sleeps = 0
    /\ inv.listCalls = PollAttempts

\* What a helper starts from: nothing of an earlier call.
StartsFresh ==
    /\ i' = 0 /\ tries' = 0 /\ err' = Nil /\ ~ctxCancelled'
    /\ inv' = FreshInv
    /\ hist'.results = <<>> /\ hist'.writes = {} /\ hist'.ownerCalls = 0

\* Every producer call lists the group remotely and is decided on that listing.
FreshListing ==
    /\ inv'.listCalls = inv.listCalls + 1
    /\ tries' = tries + 1
    /\ groupId \in inv'.listed
    /\ pc' = "pollWait" => ~Contains(inv'.lastList, member)
    /\ (pc' # "pollWait" /\ inv'.polled = Nil) => Contains(inv'.lastList, member)

\* C19: no listing is cached or reused and no state passes from one call to
\* a later one: every poll iteration of GroupAddMember makes one more remote
\* listing of the group and is decided on it, every helper starts from
\* fresh state, every GroupAddMember invocation within GroupAddMembers
\* starts with fresh counters, and a finished call leaves nothing behind.
C19_NothingKept ==
    [][/\ (pc = "poll" /\ pc' # pc) => FreshListing
       /\ (pc = "idle" /\ pc' # pc) => StartsFresh
       /\ (pc = "range" /\ pc' = "add") =>
              (i' = 0 /\ tries' = 0 /\ err' = Nil /\ inv' = FreshInv)
       /\ (pc = "done" /\ pc' = "idle") =>
              (/\ i' = 0 /\ tries' = 0 /\ err' = Nil /\ ret' = NoRet
               /\ members' = <<>> /\ idx' = 0 /\ op' = "none"
               /\ inv' = FreshInv /\ hist' = FreshHist(<<>>))]_vars

\* The second listing, unlike the first, shows the member, and the poll
\* succeeds on it.
C19_Witness ==
    /\ op = "GroupAddMember" /\ pc = "done"
    /\ inv.listCalls = 2 /\ inv.hitAt = 2 /\ inv.errAt = 0
    /\ ret = Nil

\* The second member of GroupAddMembers is being added after the first
\* needed a retry and a second listing.
C19_SecondMemberFresh ==
    /\ op = "GroupAddMembers" /\ pc = "add" /\ idx = 2
    /\ Len(hist.results) = 1
    /\ i = 0 /\ tries = 0 /\ inv = FreshInv

====
